---------------------------- MODULE Spec2Model ----------------------------
(***************************************************************************)
(* Model of src/ebpf/xdp_lb.c: the XDP program xdp_load_balancer, its two  *)
(* array maps (backends, backend_count) and the selection hash.            *)
(*                                                                         *)
(* Conventions.                                                            *)
(*  - A byte is a number in 0..255.  A packet buffer is the sequence of    *)
(*    the bytes data[0] .. data_end[-1]; byte offset k is element k+1.     *)
(*  - A __u32 is kept as its four bytes, least significant first           *)
(*    (<<b0,b1,b2,b3>> stands for b0 + 2^8 b1 + 2^16 b2 + 2^24 b3), so     *)
(*    that 32-bit wrap-around arithmetic never leaves TLC's integers.  The *)
(*    program is built for a little-endian target (bpfel), where the four  *)
(*    bytes of a __u32 in memory are these bytes in this order.            *)
(*  - The program only reads the maps and each invocation owns its packet, *)
(*    so invocations on different CPUs do not influence each other; the    *)
(*    model runs one CPU that handles packet after packet, concurrently    *)
(*    with the control plane that writes the maps.                         *)
(***************************************************************************)
EXTENDS Naturals, Sequences, FiniteSets

\* ------------------------------------------------------------------------
\* Bounds of the model
\* ------------------------------------------------------------------------

\* Longest table the control plane installs (besides the oversized one).
MaxLen == 2

\* ------------------------------------------------------------------------
\* Program constants and header layout
\* ------------------------------------------------------------------------

MAX_BACKENDS == 8

\* max_entries of the backend_count map
COUNT_ENTRIES == 1

\* ETH_P_IP, 0x0800
ETH_P_IP == 2048

\* sizeof(struct ethhdr): h_dest[6], h_source[6], h_proto
ETH_HLEN == 14

\* ETH_ALEN, the length of h_dest
ETH_ALEN == 6

\* offsetof(struct ethhdr, h_proto)
OFF_H_PROTO == 12

\* sizeof(struct iphdr), without options
IPH_LEN == 20

\* offsetof(struct iphdr, saddr) and offsetof(struct iphdr, daddr)
OFF_SADDR == 12

OFF_DADDR == 16

\* the null pointer; a pointer to the element of key k is <<k>>
NULL == <<>>

\* ------------------------------------------------------------------------
\* 32-bit arithmetic on byte quadruples
\* ------------------------------------------------------------------------

RECURSIVE XorBits(_, _, _)
\* exclusive or of the n low bits of x and y
XorBits(x, y, n) ==
    IF n = 0 THEN 0
    ELSE (((x % 2) + (y % 2)) % 2) + 2 * XorBits(x \div 2, y \div 2, n - 1)

\* a ^ b
Xor32(a, b) == <<XorBits(a[1], b[1], 8), XorBits(a[2], b[2], 8),
                 XorBits(a[3], b[3], 8), XorBits(a[4], b[4], 8)>>

\* the one element of a set of one element
Only(S) == CHOOSE x \in S : TRUE

\* the __u32 with value n, for 0 <= n < 2^31
U32(n) == <<n % 256, (n \div 256) % 256, (n \div 65536) % 256,
            (n \div 16777216) % 256>>

\* a >> 16
Shr16(a) == <<a[3], a[4], 0, 0>>

\* a >> 15: bit 15 of a, then the upper half shifted up by one
Shr15(a) == U32((a[2] \div 128) + 2 * a[3] + 512 * a[4])

\* a * m modulo 2^32: schoolbook product of the bytes, carries propagated,
\* everything from bit 32 up dropped
Mul32(a, m) ==
    LET c0 == a[1] * m[1]
        c1 == a[1] * m[2] + a[2] * m[1] + (c0 \div 256)
        c2 == a[1] * m[3] + a[2] * m[2] + a[3] * m[1] + (c1 \div 256)
        c3 == a[1] * m[4] + a[2] * m[3] + a[3] * m[2] + a[4] * m[1]
              + (c2 \div 256)
    IN  <<c0 % 256, c1 % 256, c2 % 256, c3 % 256>>

\* 0x7feb352d
HASH_M1 == <<45, 53, 235, 127>>

\* 0x846ca68b
HASH_M2 == <<139, 166, 108, 132>>

\* A slip in hash: the middle shift taken as 16 like the other two.
hash_shift16(a) ==
    Only({Xor32(a5, Shr16(a5)) :
      a5 \in {Mul32(a4, HASH_M2) :
        a4 \in {Xor32(a3, Shr16(a3)) :
          a3 \in {Mul32(a2, HASH_M1) :
            a2 \in {Xor32(a1, Shr16(a1)) : a1 \in {a}}}}}})

\* hash, lines 76-84; the five assignments to a from the innermost line
\* outwards, each value of a computed once:
\*   a ^= a >> 16;  a *= 0x7feb352d;  a ^= a >> 15;  a *= 0x846ca68b;
\*   a ^= a >> 16;  return a
hash(a) ==
    Only({Xor32(a5, Shr16(a5)) :
      a5 \in {Mul32(a4, HASH_M2) :
        a4 \in {Xor32(a3, Shr15(a3)) :
          a3 \in {Mul32(a2, HASH_M1) :
            a2 \in {Xor32(a1, Shr16(a1)) : a1 \in {a}}}}}})

\* the remainder of a by n, for 1 <= n < 2^23
Rem32(a, n) ==
    LET r3 == a[4] % n
        r2 == (r3 * 256 + a[3]) % n
        r1 == (r2 * 256 + a[2]) % n
    IN  (r1 * 256 + a[1]) % n

\* a % n as the BPF modulo instruction computes it: a modulo by zero leaves
\* the destination register, which holds a, unchanged
Mod32(a, n) == IF n = 0 THEN a ELSE U32(Rem32(a, n))

\* a __u32 used as an array-map key is in range iff it is below max_entries
KeyBelow(k, max) == k[2] = 0 /\ k[3] = 0 /\ k[4] = 0 /\ k[1] < max

\* ------------------------------------------------------------------------
\* Buffers
\* ------------------------------------------------------------------------

\* the 16-bit value a little-endian load reads at byte offset off
Load16(buf, off) == buf[off + 1] + 256 * buf[off + 2]

\* the __u32 read at byte offset off
Load32(buf, off) == <<buf[off + 1], buf[off + 2], buf[off + 3], buf[off + 4]>>

\* buf with the bytes from offset off on overwritten by bytes
Store(buf, off, bytes) ==
    [i \in 1..Len(buf) |->
        IF i > off /\ i <= off + Len(bytes) THEN bytes[i - off] ELSE buf[i]]

\* __constant_htons on a little-endian target: the two bytes swapped
htons(x) == (x % 256) * 256 + (x \div 256)

\* ------------------------------------------------------------------------
\* The packets the interface delivers and the tables the control plane
\* installs
\* ------------------------------------------------------------------------

\* struct backend { __u32 ip; __u8 mac[6]; }: 10.0.0.1 and 10.0.0.2 in
\* network byte order, with their link addresses
BackendA == [ip |-> <<10, 0, 0, 1>>, mac |-> <<170, 187, 204, 221, 238, 1>>]

BackendB == [ip |-> <<10, 0, 0, 2>>, mac |-> <<170, 187, 204, 221, 238, 2>>]

Pool == {BackendA, BackendB}

\* an array map's element before its first update: all bytes zero
ZeroBackend == [ip |-> <<0, 0, 0, 0>>, mac |-> <<0, 0, 0, 0, 0, 0>>]

\* a table of MAX_BACKENDS + 1 entries
Oversized == [i \in 1..(MAX_BACKENDS + 1) |-> BackendA]

\* the table of n entries that starts with first and alternates
Alternating(first, n) ==
    [i \in 1..n |-> IF i % 2 = 1 THEN first ELSE CHOOSE x \in Pool : x # first]

\* the arguments the control plane passes to replace
Tables == {Alternating(f, n) : f \in Pool, n \in 0..MaxLen} \cup {Oversized}

\* source addresses 192.168.1.5, 10.1.2.3 and 0.0.0.0 (network byte order)
Sources == {<<192, 168, 1, 5>>, <<10, 1, 2, 3>>, <<0, 0, 0, 0>>}

\* the balancer's own link address, a client's, and the service address
MacLB == <<2, 0, 0, 0, 0, 1>>

MacClient == <<2, 0, 0, 0, 0, 9>>

ServiceIp == <<10, 0, 0, 100>>

\* a 20-byte IPv4 header: version/ihl, tos, tot_len, id, frag_off, ttl,
\* protocol, check, saddr, daddr
IpHeader(saddr) ==
    <<69, 0, 0, 22, 0, 1, 0, 0, 64, 17, 171, 205>> \o saddr \o ServiceIp

\* an Ethernet frame: h_dest, h_source, h_proto, then the rest
Frame(proto, rest) == MacLB \o MacClient \o proto \o rest

\* a well-formed IPv4 frame from saddr with two bytes of payload
Ipv4Frame(saddr) == Frame(<<8, 0>>, IpHeader(saddr) \o <<222, 173>>)

Packets ==
    {Ipv4Frame(s) : s \in Sources}
    \cup { SubSeq(Ipv4Frame(<<10, 1, 2, 3>>), 1, 10),      \* runt frame
           SubSeq(Ipv4Frame(<<10, 1, 2, 3>>), 1, ETH_HLEN), \* no IP header
           SubSeq(Ipv4Frame(<<10, 1, 2, 3>>), 1, ETH_HLEN + IPH_LEN - 1),
           Frame(<<8, 6>>, IpHeader(<<10, 1, 2, 3>>)),      \* ARP ethertype
           Frame(<<0, 8>>, IpHeader(<<10, 1, 2, 3>>)) }     \* 0x0008

\* ------------------------------------------------------------------------
\* State
\* ------------------------------------------------------------------------

VARIABLES
    backends,       \* the backends map: key 0..MAX_BACKENDS-1 -> struct backend
    backend_count,  \* the backend_count map: key 0 -> __u32
    pc,             \* where the invocation of xdp_load_balancer stands
    data,           \* the packet buffer, data .. data_end
    count_test,     \* the value of *count tested at line 138
    count_div,      \* the value of *count line 147 has just divided by
    idx,            \* idx, a __u32, once line 147 has computed it
    b,              \* b, pointing to the element line 149 returned
    ret,            \* the value xdp_load_balancer returned
    wtab,           \* the table of the control plane's last accepted replace
    old,            \* the table installed before that
    todo,           \* the writes of that replace still to be done
    wres,           \* what the last replace call answered
    data0,          \* history: the buffer as the invocation received it
    steps,          \* history: the steps the invocation has taken
    quiet,          \* history: no replace began while the invocation ran
    admissible      \* history: what a whole table could have selected

vars == <<backends, backend_count, pc, data, count_test, count_div, idx, b,
          ret, wtab, old, todo, wres, data0, steps, quiet, admissible>>

cpu == <<pc, data, count_test, count_div, idx, b, ret, data0, steps>>

maps == <<backends, backend_count>>

plane == <<wtab, old, todo, wres>>

XDP_DROP == "XDP_DROP"

XDP_PASS == "XDP_PASS"

XDP_TX == "XDP_TX"

\* a local that holds no value yet; the value v once it is set is <<v>>,
\* and a __u32 its four bytes
None == <<>>

\* no return yet
NoVerdict == "none"

\* the program points of xdp_load_balancer, by source line
ProgramPoints == {"idle", "L136", "L147", "L149", "L162", "L163", "ret"}

\* an invocation is running
Running == pc \notin {"idle", "ret"}

\* ------------------------------------------------------------------------
\* Map helpers (the kernel's array map)
\* ------------------------------------------------------------------------

\* bpf_map_lookup_elem on an array map: the element of key k, or NULL when
\* the key is not below max_entries
bpf_map_lookup_elem(k, max_entries) ==
    IF KeyBelow(k, max_entries) THEN <<k[1]>> ELSE NULL

\* bpf_map_update_elem on an array map from user space: an update of a key
\* not below max_entries is refused (E2BIG) and leaves the map as it is
bpf_map_update_elem(map, k, v, max_entries) ==
    IF k < max_entries THEN [map EXCEPT ![k] = v] ELSE map

\* ------------------------------------------------------------------------
\* xdp_load_balancer
\* ------------------------------------------------------------------------

\* line 112: (void *)(eth + 1) > data_end
EthTruncated(buf) == ETH_HLEN > Len(buf)

\* A slip in the ethertype test: nothing is taken for a foreign protocol.
NotIPv4_never(buf) == FALSE

\* line 115: eth->h_proto != __constant_htons(ETH_P_IP)
NotIPv4(buf) == Load16(buf, OFF_H_PROTO) # htons(ETH_P_IP)

\* line 124: (void *)(iph + 1) > data_end
IpTruncated(buf) == ETH_HLEN + IPH_LEN > Len(buf)

\* lines 110-125: TRUE when one of the three tests returns XDP_PASS
Rejected(buf) ==
    IF EthTruncated(buf) THEN TRUE
    ELSE IF NotIPv4(buf) THEN TRUE
    ELSE IpTruncated(buf)

\* A slip in the count test: only the NULL test is made.
NoBackends_nullonly(count) == count = NULL

\* line 138: !count || *count == 0
NoBackends(count) == count = NULL \/ backend_count[count[1]] = 0

\* A slip in the rewrite: the address is stored over saddr.
RewriteDaddr_saddr(buf, ip) == Store(buf, ETH_HLEN + OFF_SADDR, ip)

\* line 162: iph->daddr = b->ip
RewriteDaddr(buf, ip) == Store(buf, ETH_HLEN + OFF_DADDR, ip)

\* line 163: __builtin_memcpy(eth->h_dest, b->mac, 6)
RewriteDest(buf, mac) == Store(buf, 0, SubSeq(mac, 1, ETH_ALEN))

\* the tables in force, whole or partly written, at this moment
LiveTables == {wtab} \cup (IF todo # {} THEN {old} ELSE {})

\* hash of each source address of the model
SourceHash == [s \in Sources |-> hash(s)]

\* the entry a table t of at least one entry selects for source address s
Pick(t, s) == t[Rem32(SourceHash[s], Len(t)) + 1]

\* at a return the history of the invocation ends
Returned == quiet' = TRUE /\ admissible' = {}

\* lines 101-125: a packet arrives; the three header tests
XdpEntry(p) ==
    /\ pc \in {"idle", "ret"}
    /\ data' = p
    /\ data0' = p
    /\ count_test' = None
    /\ count_div' = None
    /\ idx' = None
    /\ b' = NULL
    /\ steps' = 1
    /\ IF Rejected(p)
       THEN /\ pc' = "ret"
            /\ ret' = XDP_PASS
            /\ Returned
       ELSE /\ pc' = "L136"
            /\ ret' = NoVerdict
            /\ quiet' = (todo = {})
            /\ admissible' =
                 {Pick(t, Load32(p, ETH_HLEN + OFF_SADDR)) :
                     t \in {u \in LiveTables : Len(u) > 0}}
    /\ UNCHANGED <<maps, plane>>

\* lines 135-141: look the count element up and test it
ReadCount ==
    /\ pc = "L136"
    /\ LET count == bpf_map_lookup_elem(U32(0), COUNT_ENTRIES)
       IN  IF NoBackends(count)
           THEN /\ pc' = "ret"
                /\ ret' = XDP_PASS
                /\ count_test' = None
                /\ Returned
           ELSE /\ pc' = "L147"
                /\ ret' = ret
                /\ count_test' = <<backend_count[count[1]]>>
                /\ UNCHANGED <<quiet, admissible>>
    /\ steps' = steps + 1
    /\ UNCHANGED <<data, count_div, idx, b, data0, maps, plane>>

\* line 147 with the divisor n
Select(n) ==
    /\ pc = "L147"
    /\ count_div' = <<n>>
    /\ \E h \in {hash(Load32(data, ETH_HLEN + OFF_SADDR))} :
          idx' = Mod32(h, n)
    /\ pc' = "L149"
    /\ steps' = steps + 1
    /\ UNCHANGED <<data, count_test, b, ret, data0, quiet, admissible, maps,
                   plane>>

\* line 147: *count is an ordinary load from map memory that user space
\* writes concurrently; the build may keep the value line 138 loaded in a
\* register, or load it again
SelectBackend ==
    \/ Select(count_test[1])
    \/ Select(backend_count[0])

\* A slip in the failure path: the packet is dropped.
LookupFailed_drop == XDP_DROP

\* lines 150-153: what is returned when the lookup fails
LookupFailed == XDP_PASS

\* lines 149-153: look the selected element up
LookupBackend ==
    /\ pc = "L149"
    /\ LET e == bpf_map_lookup_elem(idx, MAX_BACKENDS)
       IN  IF e = NULL
           THEN /\ pc' = "ret"
                /\ ret' = LookupFailed
                /\ b' = NULL
                /\ count_test' = None
                /\ idx' = None
                /\ Returned
           ELSE /\ pc' = "L162"
                /\ ret' = ret
                /\ b' = e
                /\ UNCHANGED <<count_test, idx, quiet, admissible>>
    /\ count_div' = None
    /\ steps' = steps + 1
    /\ UNCHANGED <<data, data0, maps, plane>>

\* line 162: the destination address is overwritten from the element
WriteDaddr ==
    /\ pc = "L162"
    /\ data' = RewriteDaddr(data, backends[b[1]].ip)
    /\ pc' = "L163"
    /\ steps' = steps + 1
    /\ UNCHANGED <<count_test, count_div, idx, b, ret, data0, quiet,
                   admissible, maps, plane>>

\* lines 163-169: the link destination is overwritten, then XDP_TX
WriteDest ==
    /\ pc = "L163"
    /\ data' = RewriteDest(data, backends[b[1]].mac)
    /\ pc' = "ret"
    /\ ret' = XDP_TX
    /\ count_test' = None
    /\ idx' = None
    /\ b' = NULL
    /\ Returned
    /\ steps' = steps + 1
    /\ UNCHANGED <<count_div, data0, maps, plane>>

\* one step of the invocation that is running
CpuStep == ReadCount \/ SelectBackend \/ LookupBackend \/ WriteDaddr
           \/ WriteDest

\* ------------------------------------------------------------------------
\* The control plane
\* ------------------------------------------------------------------------

\* A slip in replace: no capacity test; the oversized table goes on to be
\* written element by element.
Replace_unchecked(t) ==
    /\ todo = {}
    /\ wtab' = t
    /\ old' = wtab
    /\ todo' = 0..Len(t)
    /\ wres' = "writing"
    /\ quiet' = (quiet /\ ~Running)
    /\ admissible' = admissible
    /\ UNCHANGED <<maps, cpu>>

\* replace(entries): more than MAX_BACKENDS entries are refused and nothing
\* is written; otherwise every element and the count are due to be written,
\* each by a map update of its own (the two maps have no common update):
\* the elements in key order, the count last
Replace(t) ==
    /\ todo = {}
    /\ IF Len(t) > MAX_BACKENDS
       THEN /\ wres' = "CapacityExceeded"
            /\ UNCHANGED <<wtab, old, todo, quiet, admissible>>
       ELSE /\ wtab' = t
            /\ old' = wtab
            /\ todo' = 0..Len(t)
            /\ wres' = "writing"
            /\ quiet' = (quiet /\ ~Running)
            /\ admissible' =
                 IF Running /\ Len(t) > 0
                 THEN admissible
                        \cup {Pick(t, Load32(data0, ETH_HLEN + OFF_SADDR))}
                 ELSE admissible
    /\ UNCHANGED <<maps, cpu>>

\* one element of the table is written into the backends map
UpdateBackend(k) ==
    /\ k \in todo
    /\ k < Len(wtab)
    /\ \A j \in todo : j >= k
    /\ backends' = bpf_map_update_elem(backends, k, wtab[k + 1], MAX_BACKENDS)
    /\ todo' = todo \ {k}
    /\ wres' = IF todo' = {} THEN "ok" ELSE wres
    /\ UNCHANGED <<backend_count, wtab, old, cpu, quiet, admissible>>

\* the table's length is written into the backend_count map
UpdateCount ==
    /\ todo = {Len(wtab)}
    /\ backend_count' =
         bpf_map_update_elem(backend_count, 0, Len(wtab), COUNT_ENTRIES)
    /\ todo' = todo \ {Len(wtab)}
    /\ wres' = IF todo' = {} THEN "ok" ELSE wres
    /\ UNCHANGED <<backends, wtab, old, cpu, quiet, admissible>>

\* ------------------------------------------------------------------------
\* The system
\* ------------------------------------------------------------------------

\* the maps as the loader creates them, no packet received yet
Init ==
    /\ backends = [k \in 0..(MAX_BACKENDS - 1) |-> ZeroBackend]
    /\ backend_count = [k \in 0..(COUNT_ENTRIES - 1) |-> 0]
    /\ pc = "idle"
    /\ data = <<>>
    /\ data0 = <<>>
    /\ count_test = None
    /\ count_div = None
    /\ idx = None
    /\ b = NULL
    /\ ret = NoVerdict
    /\ wtab = <<>>
    /\ old = <<>>
    /\ todo = {}
    /\ wres = "ok"
    /\ steps = 0
    /\ quiet = TRUE
    /\ admissible = {}

Next ==
    \/ \E p \in Packets : XdpEntry(p)
    \/ ReadCount
    \/ SelectBackend
    \/ LookupBackend
    \/ WriteDaddr
    \/ WriteDest
    \/ \E t \in Tables : Replace(t)
    \/ \E k \in todo : UpdateBackend(k)
    \/ UpdateCount

Spec == Init /\ [][Next]_vars

\* ------------------------------------------------------------------------
\* Properties
\* ------------------------------------------------------------------------

\* a frame long enough for both headers whose ethertype bytes are 08 00
WellFormed(buf) == Len(buf) >= 34 /\ buf[13] = 8 /\ buf[14] = 0

\* the bytes of iph->saddr, of iph->daddr and of eth->h_dest
SrcIp(buf) == SubSeq(buf, 27, 30)

DstIp(buf) == SubSeq(buf, 31, 34)

DstMac(buf) == SubSeq(buf, 1, 6)

\* x and y agree on every byte outside eth->h_dest and iph->daddr
SameElsewhere(x, y) ==
    /\ Len(x) = Len(y)
    /\ \A i \in 1..Len(x) : i \notin (1..6) \cup (31..34) => x[i] = y[i]

\* the step taken is a step of the invocation standing at program point l
StepAt(l) == pc = l /\ pc' # pc

\* C1: a packet that is too short for an Ethernet header, or is not IPv4,
\* or is too short for Ethernet plus IPv4 headers, is returned with XDP_PASS
\* and with every byte as received, whatever the maps hold.
C1_RejectedPassUnchanged ==
    (pc = "ret" /\ ~WellFormed(data0)) => (ret = XDP_PASS /\ data = data0)

\* C1 witness: a full-length frame of a foreign ethertype has been passed
\* while backends were configured.
C1_Witness ==
    /\ pc = "ret"
    /\ ret = XDP_PASS
    /\ Len(data0) >= 34
    /\ ~WellFormed(data0)
    /\ backend_count[0] > 0

\* C2: when the count is 0 as the program reads it for a well-formed IPv4
\* packet, that very step returns XDP_PASS with the buffer as received, and
\* no backend has been selected or looked up.
C2_NoBackendsPass ==
    [][(StepAt("L136") /\ backend_count[0] = 0)
         => /\ WellFormed(data0)
            /\ pc' = "ret"
            /\ ret' = XDP_PASS
            /\ data' = data0
            /\ idx = None /\ idx' = None
            /\ b = NULL /\ b' = NULL]_vars

\* C2 witness: a well-formed packet came back at the count test.
C2_Witness ==
    /\ pc = "ret"
    /\ steps = 2
    /\ ret = XDP_PASS
    /\ WellFormed(data0)
    /\ data = data0

MixOfSource ==
    [s \in Sources |->
        CASE s = <<192, 168, 1, 5>> -> <<21, 158, 164, 34>>
          [] s = <<10, 1, 2, 3>>    -> <<170, 183, 54, 131>>
          [] s = <<0, 0, 0, 0>>     -> <<0, 0, 0, 0>>]

\* the remainder of the 32-bit value h by n
Residue(h, n) ==
    ((((((h[4] * 256 + h[3]) % n) * 256) + h[2]) % n) * 256 + h[1]) % n

\* C4: while the table is not modified and holds at least one backend, the
\* index selected for a well-formed packet is mix(source address) modulo the
\* count; it depends on nothing else, so that two invocations with the same
\* source address select the same index.
C4_SelectionByHash ==
    (pc \in {"L149", "L162", "L163"} /\ quiet)
       => /\ backend_count[0] >= 1
          /\ idx = <<Residue(MixOfSource[SrcIp(data0)], backend_count[0]),
                     0, 0, 0>>

\* C4 witness: with two backends installed and no replace around, a source
\* address was given index 1.
C4_Witness ==
    /\ pc = "L149"
    /\ quiet
    /\ backend_count[0] = 2
    /\ idx = <<1, 0, 0, 0>>

\* C5: a replace with more than MAX_BACKENDS entries answers
\* CapacityExceeded and leaves the stored backends and the count as they
\* were; the count never exceeds MAX_BACKENDS.
C5_CapacityExceeded ==
    /\ [](backend_count[0] <= MAX_BACKENDS)
    /\ [][\A t \in Tables :
             (Len(t) > MAX_BACKENDS /\ Replace(t))
                => /\ wres' = "CapacityExceeded"
                   /\ backends' = backends
                   /\ backend_count' = backend_count
                   /\ todo' = {}]_vars

\* C5 witness: a replace was refused while two backends were installed.
C5_Witness ==
    /\ wres = "CapacityExceeded"
    /\ backend_count[0] = 2
    /\ backends[0] # ZeroBackend

\* the entries of table t that the backends map holds at this moment
ValidEntries(t) == {i \in 1..Len(t) : backends[i - 1] = t[i]}

C7_OldOrNewTable ==
    [][StepAt("L163")
         => [ip |-> DstIp(data'), mac |-> DstMac(data')] \in admissible]_vars

\* the __u32 k is below n
Below(k, n) == k[2] = 0 /\ k[3] = 0 /\ k[4] = 0 /\ k[1] < n

\* C8: a lookup made with an index that is not below the count at that
\* moment fails, and the program returns XDP_PASS with the buffer as
\* received.
C8_StaleIndexPasses ==
    [][(StepAt("L149") /\ ~Below(idx, backend_count[0]))
         => (pc' = "ret" /\ ret' = XDP_PASS /\ data' = data0)]_vars

\* C9: an invocation returns after at most one step per program point: at
\* every point before the return its next step can be taken whatever the
\* control plane is doing, no step is repeated, and what it returns is
\* XDP_PASS or XDP_TX.
C9_BoundedNonBlocking ==
    /\ steps < Cardinality(ProgramPoints)
    /\ Running => ENABLED CpuStep
    /\ pc = "ret" => ret \in {XDP_PASS, XDP_TX}

\* C9 witness: an invocation went through every program point and returned
\* while a replace was under way.
C9_Witness ==
    /\ pc = "ret"
    /\ steps = Cardinality(ProgramPoints) - 1
    /\ ret = XDP_TX
    /\ todo # {}

\* C10: the count line 147 divides by is the value line 138 tested, hence
\* never 0.
C10_DivisorIsTestedCount ==
    pc = "L149" => (count_div = count_test /\ count_div # <<0>>)

=============================================================================
